---------------------------- MODULE Spec2Model ----------------------------
(***************************************************************************)
(* Model of the wiwik forum helpers:                                       *)
(*   - forum/common/utils.py: dedent_code and its two helpers, a pure      *)
(*     text transformation over the lines of a markdown document;          *)
(*   - forum/forum/models/question_addins.py: QuestionBookmark.save and    *)
(*     QuestionBookmark.delete, which keep the denormalised counter        *)
(*     user.bookmarks_count next to the stored bookmark rows.              *)
(*                                                                         *)
(* A Python str is a sequence of one-character strings.  Python list and   *)
(* str indices are 0-based and are kept 0-based in every operator that     *)
(* carries the name of a source variable; At(seq, i) reads seq[i].         *)
(***************************************************************************)
EXTENDS Integers, Sequences, FiniteSets, TLC

VARIABLES
    markdown_text,          \* dedent_code: the argument
    lines,                  \* dedent_code: the local list named lines
    code_blocks_sections,   \* dedent_code: the local list of (start, end)
    section,                \* dedent_code: position of the for loop of line 38
    result,                 \* dedent_code: the returned str
    pc,                     \* dedent_code: control point
    rows,                   \* QuestionBookmark table: bookmark -> user of its row
    obj_user,               \* in-memory QuestionBookmark instance: its user field
    bookmarks_count,        \* user table: the stored bookmarks_count column
    tpc,                    \* per running call: control point
    tcall,                  \* per running call: which method it runs
    tcount                  \* per running call: the count it has read

dvars == <<markdown_text, lines, code_blocks_sections, section, result, pc>>
bvars == <<rows, obj_user, bookmarks_count>>
tvars == <<tpc, tcall, tcount>>
vars == <<markdown_text, lines, code_blocks_sections, section, result, pc,
          rows, obj_user, bookmarks_count, tpc, tcall, tcount>>

(***************************************************************************)
(* Bounds of the model.                                                    *)
(***************************************************************************)
\* longest document, in lines
MaxLines == 4
\* number of QuestionBookmark instances
MaxBookmarks == 3
\* number of users
MaxUsers == 2

(***************************************************************************)
(* Python values.                                                          *)
(***************************************************************************)
\* Python's None where the code holds an index or nothing (start = None)
NoneIdx == -1
\* sys.maxsize: only compared with and subtracted from line lengths, so any
\* value above every line length behaves as 2^63 - 1 does
MaxSize == 1000000
\* the characters str.lstrip() strips that occur inside one line
Whitespace == {" ", "\t"}
\* the backtick character (a TLA+ string cannot hold it, so it is named)
BackTick == "bt"
\* the literal of three backticks that lines 11 and 21 search for
Fence == <<BackTick, BackTick, BackTick>>
\* the separator '\n'
NL == "\n"

Min(S) == CHOOSE x \in S : \A y \in S : x <= y
min2(a, b) == IF a <= b THEN a ELSE b
max2(a, b) == IF a >= b THEN a ELSE b

\* seq[i] with Python's 0-based index
At(seq, i) == seq[i + 1]
\* whether lines[i] is defined for a non-negative index i
IsIndex(seq, i) == i # NoneIdx /\ 0 <= i /\ i < Len(seq)

(***************************************************************************)
(* str methods used by utils.py.                                           *)
(***************************************************************************)
\* markdown_text.split('\n'): always at least one element
RECURSIVE SplitAcc(_, _, _, _)
SplitAcc(s, i, cur, acc) ==
    IF i > Len(s) THEN Append(acc, cur)
    ELSE IF s[i] = NL THEN SplitAcc(s, i + 1, <<>>, Append(acc, cur))
    ELSE SplitAcc(s, i + 1, Append(cur, s[i]), acc)

\* str.splitlines(): as split('\n') but without a trailing empty line
SplitLines(s) ==
    LET all == SplitAcc(s, 1, <<>>, <<>>)
    IN  IF all[Len(all)] = <<>> THEN SubSeq(all, 1, Len(all) - 1) ELSE all

Split(s) == SplitAcc(s, 1, <<>>, <<>>)

\* '\n'.join(lines)
RECURSIVE Join(_)
Join(ls) ==
    IF Len(ls) = 0 THEN <<>>
    ELSE IF Len(ls) = 1 THEN ls[1]
    ELSE ls[1] \o <<NL>> \o Join(Tail(ls))

\* line.find(sub): lowest 0-based offset of sub in line, or -1
Find(line, sub) ==
    LET hits == {k \in 0..(Len(line) - Len(sub)) :
                    SubSeq(line, k + 1, k + Len(sub)) = sub}
    IN  IF hits = {} THEN -1 ELSE Min(hits)

\* sub in line
In(sub, line) == Find(line, sub) # -1

\* line.lstrip()
RECURSIVE Lstrip(_)
Lstrip(line) ==
    IF line # <<>> /\ Head(line) \in Whitespace THEN Lstrip(Tail(line)) ELSE line

\* line.lstrip(): the slice replaced by a strip of all leading whitespace
SliceLstrip(line, d) == Lstrip(line)

\* line[d:], with Python's clamping and its negative start counted from the end
Slice(line, d) ==
    LET n == Len(line)
        lo == IF d < 0 THEN max2(n + d, 0) ELSE min2(d, n)
    IN  SubSeq(line, lo + 1, n)

(***************************************************************************)
(* _find_code_blocks                                                       *)
(***************************************************************************)
\* the loop of lines 10-16 from index i on, with its locals start and res
RECURSIVE FindLoop(_, _, _, _)
FindLoop(ls, i, start, res) ==
    IF i >= Len(ls) THEN res
    ELSE IF In(Fence, At(ls, i))
         THEN IF start = NoneIdx
              THEN FindLoop(ls, i + 1, i, res)
              ELSE FindLoop(ls, i + 1, NoneIdx, Append(res, <<start, i>>))
         ELSE FindLoop(ls, i + 1, start, res)

\* the loop without the reset start = None of line 16
RECURSIVE FindLoopNoReset(_, _, _, _)
FindLoopNoReset(ls, i, start, res) ==
    IF i >= Len(ls) THEN res
    ELSE IF In(Fence, At(ls, i))
         THEN IF start = NoneIdx
              THEN FindLoopNoReset(ls, i + 1, i, res)
              ELSE FindLoopNoReset(ls, i + 1, start, Append(res, <<start, i>>))
         ELSE FindLoopNoReset(ls, i + 1, start, res)

\* the loop's final value of start
RECURSIVE FindLoopStart(_, _, _)
FindLoopStart(ls, i, start) ==
    IF i >= Len(ls) THEN start
    ELSE IF In(Fence, At(ls, i))
         THEN FindLoopStart(ls, i + 1, IF start = NoneIdx THEN i ELSE NoneIdx)
         ELSE FindLoopStart(ls, i + 1, start)

\* _find_code_blocks with the reset of line 16 left out
FindCodeBlocksNoReset(markdown_text_lines) ==
    FindLoopNoReset(markdown_text_lines, 0, NoneIdx, <<>>)
\* an unclosed fence closed by the last line of the document
FindCodeBlocksCloseAtEnd(markdown_text_lines) ==
    LET res == FindLoop(markdown_text_lines, 0, NoneIdx, <<>>)
        start == FindLoopStart(markdown_text_lines, 0, NoneIdx)
    IN  IF start # NoneIdx /\ start < Len(markdown_text_lines) - 1
        THEN Append(res, <<start, Len(markdown_text_lines) - 1>>)
        ELSE res
\* an unclosed fence emitted as a span without an end
FindCodeBlocksOpenEnd(markdown_text_lines) ==
    LET res == FindLoop(markdown_text_lines, 0, NoneIdx, <<>>)
        start == FindLoopStart(markdown_text_lines, 0, NoneIdx)
    IN  IF start # NoneIdx THEN Append(res, <<start, NoneIdx>>) ELSE res

FindCodeBlocks(markdown_text_lines) ==
    FindLoop(markdown_text_lines, 0, NoneIdx, <<>>)

(***************************************************************************)
(* _dedent_code_block                                                      *)
(***************************************************************************)
\* range(start + 1, end + 1): the closing fence line taken as a body line
BodyRangeInclusive(start, end) == (start + 1)..end

\* range(start + 1, end)
BodyRange(start, end) == (start + 1)..(end - 1)

\* len(lines[i]) - len(lines[i].lstrip())
Indent(line) == Len(line) - Len(Lstrip(line))

\* line 21
FenceStart(ls, start) == Find(At(ls, start), Fence)

\* lines 22-25: the minimum indent of the body, sys.maxsize for an empty body
LineStart(ls, start, end) ==
    LET indents == {Indent(At(ls, i)) : i \in BodyRange(start, end)}
    IN  max2(Min(indents \cup {MaxSize}), 0)

\* line 26
DedentChars(ls, start, end) == LineStart(ls, start, end) - FenceStart(ls, start)

\* whether the call raises: an index that is None or outside the list
DedentRaises(ls, start, end) ==
    \/ ~IsIndex(ls, start)
    \/ end = NoneIdx
    \/ \E i \in BodyRange(start, end) : ~IsIndex(ls, i)

\* the list lines after the call (lines 27-30)
DedentCodeBlock(ls, start, end) ==
    LET dedent_chars == DedentChars(ls, start, end)
    IN  IF dedent_chars = 0 THEN ls
        ELSE [k \in 1..Len(ls) |->
                IF (k - 1) \in BodyRange(start, end)
                THEN Slice(ls[k], dedent_chars)
                ELSE ls[k]]

(***************************************************************************)
(* dedent_code as a function of its argument                               *)
(***************************************************************************)
RECURSIVE DedentAll(_, _, _)
DedentAll(ls, sections, k) ==
    IF k > Len(sections) THEN ls
    ELSE DedentAll(DedentCodeBlock(ls, sections[k][1], sections[k][2]),
                   sections, k + 1)

DedentCode(text) ==
    LET ls == Split(text)
    IN  Join(DedentAll(ls, FindCodeBlocks(ls), 1))

(***************************************************************************)
(* Inputs of dedent_code                                                   *)
(***************************************************************************)
Spaces(n) == [k \in 1..n |-> " "]

\* what follows the indentation of an input line: nothing (a blank or
\* whitespace-only line), text with an interior space, a fence
Cores == { <<>>, <<"a", " ", "b">>, Fence }

\* the indentations put in front of a core: below, at and above a fence
\* column, so that dedent_chars takes the values -2 .. 2
Indents == {0, 1, 2}

InputLines == {Spaces(n) \o c : n \in Indents, c \in Cores}

Documents == UNION {[1..n -> InputLines] : n \in 1..MaxLines}

Users == 1..MaxUsers
Bookmarks == 1..MaxBookmarks
NoUser == 0

CountRows(r, u) == Cardinality({b \in Bookmarks : r[b] = u})

\* the bookmark variables while dedent_code runs
BookmarksIdle ==
    /\ rows = [b \in Bookmarks |-> NoUser]
    /\ obj_user = [b \in Bookmarks |-> 1]
    /\ bookmarks_count = [u \in Users |-> 0]
    /\ tpc = [b \in Bookmarks |-> "idle"]
    /\ tcall = [b \in Bookmarks |-> "none"]
    /\ tcount = [b \in Bookmarks |-> 0]

\* the dedent_code variables while bookmarks are saved and deleted
DedentIdle ==
    /\ markdown_text = <<>>
    /\ lines = <<>>
    /\ code_blocks_sections = <<>>
    /\ section = 0
    /\ result = <<>>
    /\ pc = "idle"

(***************************************************************************)
(* dedent_code, one action per statement of its body                       *)
(***************************************************************************)
Init ==
    /\ markdown_text \in {Join(d) : d \in Documents}
    /\ lines = <<>>
    /\ code_blocks_sections = <<>>
    /\ section = 0
    /\ result = <<>>
    /\ pc = "split"
    /\ BookmarksIdle

\* line 36
SplitText ==
    /\ pc = "split"
    /\ lines' = Split(markdown_text)
    /\ pc' = "find"
    /\ UNCHANGED <<markdown_text, code_blocks_sections, section, result>>
    /\ UNCHANGED <<bvars, tvars>>

\* line 37
FindBlocks ==
    /\ pc = "find"
    /\ code_blocks_sections' = FindCodeBlocks(lines)
    /\ section' = 0
    /\ pc' = "loop"
    /\ UNCHANGED <<markdown_text, lines, result>>
    /\ UNCHANGED <<bvars, tvars>>

\* lines 38-39: one iteration of the for loop, the whole call of
\* _dedent_code_block; an exception leaves dedent_code
DedentSection ==
    /\ pc = "loop"
    /\ section < Len(code_blocks_sections)
    /\ LET sec == At(code_blocks_sections, section)
       IN  IF DedentRaises(lines, sec[1], sec[2])
           THEN /\ pc' = "raised"
                /\ UNCHANGED <<lines, section>>
           ELSE /\ lines' = DedentCodeBlock(lines, sec[1], sec[2])
                /\ section' = section + 1
                /\ pc' = "loop"
    /\ UNCHANGED <<markdown_text, code_blocks_sections, result>>
    /\ UNCHANGED <<bvars, tvars>>

\* line 40
JoinLines ==
    /\ pc = "loop"
    /\ section = Len(code_blocks_sections)
    /\ result' = Join(lines)
    /\ pc' = "done"
    /\ UNCHANGED <<markdown_text, lines, code_blocks_sections, section>>
    /\ UNCHANGED <<bvars, tvars>>

Next == SplitText \/ FindBlocks \/ DedentSection \/ JoinLines

Spec == Init /\ [][Next]_vars

\* dedent_code is a synchronous call: a statement that can run does run
FairSpec == Spec /\ WF_vars(Next)

(***************************************************************************)
(* QuestionBookmark.save and QuestionBookmark.delete, one call at a time   *)
(***************************************************************************)
\* a database whose counters agree with its rows; every stored bookmark's
\* instance holds the user of its row
SeqInit ==
    /\ DedentIdle
    /\ rows \in [Bookmarks -> Users \cup {NoUser}]
    /\ obj_user \in [Bookmarks -> Users]
    /\ \A b \in Bookmarks : rows[b] # NoUser => obj_user[b] = rows[b]
    /\ bookmarks_count = [u \in Users |-> CountRows(rows, u)]
    /\ tpc = [b \in Bookmarks |-> "idle"]
    /\ tcall = [b \in Bookmarks |-> "none"]
    /\ tcount = [b \in Bookmarks |-> 0]

\* bookmark.user = u, on the instance only
Reassign(b, u) ==
    /\ obj_user[b] # u
    /\ obj_user' = [obj_user EXCEPT ![b] = u]
    /\ UNCHANGED <<rows, bookmarks_count>>
    /\ UNCHANGED <<dvars, tvars>>

\* save(): the row is written with the instance's user, then that user's
\* rows are counted and the count is stored on that user
Save(b) ==
    /\ rows' = [rows EXCEPT ![b] = obj_user[b]]
    /\ bookmarks_count' =
           [bookmarks_count EXCEPT ![obj_user[b]] = CountRows(rows', obj_user[b])]
    /\ UNCHANGED obj_user
    /\ UNCHANGED <<dvars, tvars>>

\* delete() of a stored bookmark: the row is removed, then the instance's
\* user's rows are counted and the count is stored on that user
Delete(b) ==
    /\ rows[b] # NoUser
    /\ rows' = [rows EXCEPT ![b] = NoUser]
    /\ bookmarks_count' =
           [bookmarks_count EXCEPT ![obj_user[b]] = CountRows(rows', obj_user[b])]
    /\ UNCHANGED obj_user
    /\ UNCHANGED <<dvars, tvars>>

SeqNext ==
    \E b \in Bookmarks :
        \/ Save(b)
        \/ Delete(b)
        \/ \E u \in Users : Reassign(b, u)

SpecSeq == SeqInit /\ [][SeqNext]_vars

(***************************************************************************)
(* save() and delete() calls of one user running concurrently, each on     *)
(* its own instance, each statement of the method body one step            *)
(***************************************************************************)
ConcInit ==
    /\ DedentIdle
    /\ rows \in [Bookmarks -> {1, NoUser}]
    /\ obj_user = [b \in Bookmarks |-> 1]
    /\ bookmarks_count = [u \in Users |-> CountRows(rows, u)]
    /\ tpc = [b \in Bookmarks |-> "idle"]
    /\ tcall = [b \in Bookmarks |-> "none"]
    /\ tcount = [b \in Bookmarks |-> 0]

\* line 39: super().save()
SaveRow(b) ==
    /\ tpc[b] = "idle"
    /\ rows' = [rows EXCEPT ![b] = obj_user[b]]
    /\ tcall' = [tcall EXCEPT ![b] = "save"]
    /\ tpc' = [tpc EXCEPT ![b] = "count"]
    /\ UNCHANGED <<obj_user, bookmarks_count, tcount, dvars>>

\* line 44: super().delete(), of a stored bookmark
DeleteRow(b) ==
    /\ tpc[b] = "idle"
    /\ rows[b] # NoUser
    /\ rows' = [rows EXCEPT ![b] = NoUser]
    /\ tcall' = [tcall EXCEPT ![b] = "delete"]
    /\ tpc' = [tpc EXCEPT ![b] = "count"]
    /\ UNCHANGED <<obj_user, bookmarks_count, tcount, dvars>>

\* lines 40 and 45: the count query
CountStep(b) ==
    /\ tpc[b] = "count"
    /\ tcount' = [tcount EXCEPT ![b] = CountRows(rows, obj_user[b])]
    /\ tpc' = [tpc EXCEPT ![b] = "store"]
    /\ UNCHANGED <<rows, obj_user, bookmarks_count, tcall, dvars>>

\* lines 40-41 and 45-46: the count assigned to the user and the user saved
StoreStep(b) ==
    /\ tpc[b] = "store"
    /\ bookmarks_count' = [bookmarks_count EXCEPT ![obj_user[b]] = tcount[b]]
    /\ tpc' = [tpc EXCEPT ![b] = "idle"]
    /\ UNCHANGED <<rows, obj_user, tcall, tcount, dvars>>

ConcNext ==
    \E b \in Bookmarks :
        \/ SaveRow(b)
        \/ DeleteRow(b)
        \/ CountStep(b)
        \/ StoreStep(b)

SpecConc == ConcInit /\ [][ConcNext]_vars

(***************************************************************************)
(* Properties                                                              *)
(***************************************************************************)
\* the characters of the input documents
Chars == {" ", "\t", "a", "b", BackTick, NL}

\* number of newline-separated lines of a str, counted on the characters
NumLines(s) == 1 + Cardinality({i \in 1..Len(s) : s[i] = NL})

\* indices of the lines that hold a fence
MarkerSet(ls) == {i \in 0..(Len(ls) - 1) : In(Fence, At(ls, i))}

\* the j-th fence line in document order, j = 1, 2, ...
NthMarker(ls, j) ==
    CHOOSE m \in MarkerSet(ls) : Cardinality({x \in MarkerSet(ls) : x < m}) = j - 1

\* whether line i lies strictly inside one of the spans
InsideSpan(sections, i) ==
    \E k \in 1..Len(sections) : sections[k][1] < i /\ i < sections[k][2]

\* the spans _dedent_code_block has been called on
Processed == IF pc \in {"loop", "done"} THEN 1..section ELSE {}

\* C1: dedent_code is idempotent: dedenting the returned text again
\* returns it unchanged.
C1_Idempotent == pc = "done" => DedentCode(result) = result

\* C2: the line count is preserved: the list of lines has the input's
\* number of lines after every step, and so has the returned text.
C2_LineCountPreserved ==
    /\ pc \in {"find", "loop", "done"} => Len(lines) = NumLines(markdown_text)
    /\ pc = "done" => NumLines(result) = NumLines(markdown_text)

C2_Witness ==
    /\ pc = "done"
    /\ NumLines(markdown_text) = 4
    /\ result # markdown_text
    /\ At(Split(markdown_text), 3) = <<>>

\* C3: frame: every line that is not strictly inside a recognized span,
\* the fence lines of the spans among them, is the input's line, in the
\* list of lines at every step and in the returned text.
C3_Frame ==
    pc \in {"loop", "done"} =>
        LET old == Split(markdown_text)
            new == IF pc = "done" THEN Split(result) ELSE lines
        IN  /\ Len(lines) = Len(old)
            /\ Len(new) = Len(old)
            /\ \A i \in 0..(Len(old) - 1) :
                  ~InsideSpan(code_blocks_sections, i) =>
                      /\ At(lines, i) = At(old, i)
                      /\ At(new, i) = At(old, i)

C3_Witness ==
    /\ pc = "done"
    /\ Len(code_blocks_sections) = 1
    /\ code_blocks_sections[1][1] > 0
    /\ \E i \in 0..(Len(lines) - 1) :
          /\ InsideSpan(code_blocks_sections, i)
          /\ At(Split(result), i) # At(Split(markdown_text), i)

\* C4: with fewer than two fence lines no span is recognized and the
\* returned text is the input.
C4_FewMarkersNoop ==
    pc \in {"loop", "done"} =>
        (Cardinality(MarkerSet(Split(markdown_text))) < 2 =>
            /\ code_blocks_sections = <<>>
            /\ pc = "done" => result = markdown_text)

C4_Witness ==
    /\ pc = "done"
    /\ MarkerSet(Split(markdown_text)) = {0}
    /\ Len(lines) >= 3
    /\ Indent(At(lines, 1)) > 0

\* C5: dedent_code is total: no call raises, every state before the return
\* has a next step, and what is returned is a str.
C5_Total ==
    /\ pc # "raised"
    /\ pc = "done" \/ ENABLED Next
    /\ pc = "done" => result \in Seq(Chars)

\* termination itself, under FairSpec: every call reaches its return
Terminates == <>(pc = "done")

C5_Witness ==
    /\ pc = "done"
    /\ Cardinality(MarkerSet(lines)) = 3
    /\ code_blocks_sections = << <<0, 1>> >>

\* C6: a span whose dedentChars is negative has every body line output as
\* |dedentChars| spaces followed by the unchanged input line.
C6_NegativePads ==
    Processed # {} =>
        LET old == Split(markdown_text)
        IN  \A k \in Processed :
                LET start == code_blocks_sections[k][1]
                    end == code_blocks_sections[k][2]
                    d == LineStart(old, start, end) - FenceStart(old, start)
                IN  d < 0 =>
                        \A i \in BodyRange(start, end) :
                            At(lines, i) = Spaces(0 - d) \o At(old, i)

\* C7: a span whose dedentChars is positive has every body line output
\* without its first dedentChars characters, all of them whitespace, and
\* the indentation differences between its body lines are kept.
C7_PositiveStrips ==
    Processed # {} =>
        LET old == Split(markdown_text)
        IN  \A k \in Processed :
                LET start == code_blocks_sections[k][1]
                    end == code_blocks_sections[k][2]
                    d == LineStart(old, start, end) - FenceStart(old, start)
                IN  d > 0 =>
                        /\ \A i \in BodyRange(start, end) :
                              /\ Len(At(old, i)) >= d
                              /\ At(lines, i) = SubSeq(At(old, i), d + 1, Len(At(old, i)))
                              /\ \A j \in 1..d : At(old, i)[j] \in Whitespace
                        /\ \A i, j \in BodyRange(start, end) :
                              Indent(At(lines, i)) - Indent(At(lines, j))
                                  = Indent(At(old, i)) - Indent(At(old, j))

C7_Witness ==
    /\ pc = "done"
    /\ code_blocks_sections = << <<0, 3>> >>
    /\ FenceStart(lines, 0) = 1
    /\ Indent(At(Split(markdown_text), 1)) = 2
    /\ At(Split(markdown_text), 2) = Spaces(2)
    /\ At(lines, 1) # At(Split(markdown_text), 1)

\* C8: the spans are the fence lines paired by alternation in document
\* order: floor(n/2) spans (m1, m2), (m3, m4), ..., each with start < end,
\* each ending before the next starts; an odd last fence is in no span.
C8_Alternation ==
    pc \in {"loop", "done"} =>
        LET ls == Split(markdown_text)
            n == Cardinality(MarkerSet(ls))
        IN  /\ Len(code_blocks_sections) = n \div 2
            /\ \A k \in 1..Len(code_blocks_sections) :
                  /\ code_blocks_sections[k] =
                         <<NthMarker(ls, 2 * k - 1), NthMarker(ls, 2 * k)>>
                  /\ code_blocks_sections[k][1] < code_blocks_sections[k][2]
                  /\ k > 1 =>
                         code_blocks_sections[k - 1][2] < code_blocks_sections[k][1]

C8_Witness ==
    /\ pc = "loop"
    /\ section = 0
    /\ Cardinality(MarkerSet(lines)) = 3
    /\ code_blocks_sections = << <<0, 2>> >>

\* C9: calls run one at a time keep every user's bookmarks_count equal to
\* the number of stored bookmark rows of that user.
C9_CountsMatchRows ==
    \A u \in Users : bookmarks_count[u] = CountRows(rows, u)

\* C10: once every concurrently running call has completed, the user's
\* bookmarks_count equals the number of that user's stored bookmark rows.
C10_QuiescentCountsMatchRows ==
    (\A b \in Bookmarks : tpc[b] = "idle") =>
        \A u \in Users : bookmarks_count[u] = CountRows(rows, u)

=============================================================================
